---- MODULE Spec2Model ----
(***************************************************************************)
(* SemVerGo (src/main.go): the version-decision engine and the run of      *)
(* main around it.                                                         *)
(*                                                                         *)
(* Text is modelled as a sequence of tokens.  A token is a piece of text   *)
(* that the program's patterns never look inside: a commit type word, one  *)
(* punctuation character, a blank, a line break, the marker               *)
(* "BREAKING CHANGE:", the prefix "Merge ", or the word "w" standing for    *)
(* any other run of ordinary characters.                                   *)
(***************************************************************************)
EXTENDS Integers, Sequences, FiniteSets, TLC

VARIABLES
    \* the command line
    branch,          \* *branch
    preReleaseFlag,  \* -preRelease as given
    setVersion,      \* *setVersionFlag
    dryRun,          \* *dryRun
    ciMode,          \* *ciMode
    pushBranch,      \* *pushBranch
    outputChangelog, \* *outputChangelogEnabled
    nextVersionOnly, \* *nextVersionOnly
    tagFormat,       \* *tagFormat
    \* the repository and its remote
    tags,            \* the version tags: the versions that v<version> names
    otherTags,       \* the names of the tags that are not v<version>
    hasRemote,       \* whether "git remote" lists a remote
    history,         \* the messages of the commits since the current version's tag, newest first
    headMsg,         \* the message of HEAD
    changelogFile,   \* CHANGELOG.md: its lines
    changelogCommits,\* the tags for which a changelog commit was made
    remoteTags,      \* the tags pushed to origin
    branchPushed,    \* whether the branch was pushed to origin
    \* the process
    pc,              \* the step of main that runs next
    preRelease,      \* *preRelease, which main sets on a non-default branch
    exit,            \* "running", or how the process ended: "ok" (0) / "error" (1)
    commitMsgs,      \* commitMessages: the messages handed to determineBumpType
    bumpType,        \* main's bumpType
    currentVersion,  \* main's currentVersion (= currentVersionForCommits)
    newVersion,      \* main's newVersion
    finalTagName,    \* main's finalTagName
    changelogGenerated, \* main's changelogGenerated
    retry,           \* pushTag's loop counter i
    effects,         \* the commands with side effects the run has executed, in order
    \* the caller
    reported,        \* the tag names the runs so far have printed
    runs             \* the runs started so far

flags == <<branch, preReleaseFlag, setVersion, dryRun, ciMode, pushBranch, outputChangelog,
           nextVersionOnly, tagFormat>>
repo == <<tags, otherTags, hasRemote, history, headMsg, changelogFile, changelogCommits,
          remoteTags, branchPushed>>
locals == <<commitMsgs, bumpType, currentVersion, newVersion, finalTagName, changelogGenerated,
            retry>>
vars == <<flags, preRelease, repo, pc, exit, locals, effects, reported, runs>>

----------------------------------------------------------------------------
(* Bounds of the model. *)

MaxCommits == 3   \* messages in a commit list
MaxTags == 2      \* version tags in the repository
MaxNum == 1       \* the highest pre-release counter of an existing tag
MaxHistory == 1   \* commits since the current version's tag, in a run of main
MaxRuns == 2      \* runs of main that the caller starts

----------------------------------------------------------------------------
(* Tokens and the strings package. *)

SP == " "
NL == "\n"
Marker == "BREAKING CHANGE:"
MergePrefix == "Merge "

CommitTypes ==
    {"feat", "fix", "docs", "style", "refactor", "perf", "test", "build",
     "ci", "chore", "revert"}

IsSpace(t) == t \in {SP, NL}

RECURSIVE TrimLeft(_)
TrimLeft(s) ==
    IF s # <<>> /\ IsSpace(Head(s)) THEN TrimLeft(Tail(s)) ELSE s

RECURSIVE TrimRight(_)
TrimRight(s) ==
    IF s # <<>> /\ IsSpace(s[Len(s)])
    THEN TrimRight(SubSeq(s, 1, Len(s) - 1))
    ELSE s

\* strings.TrimSpace
TrimSpace(s) == TrimRight(TrimLeft(s))

\* strings.Contains(s, t) for a one-token t
Contains(s, t) == \E i \in 1..Len(s) : s[i] = t

\* strings.HasPrefix(s, t) for a one-token t
HasPrefix(s, t) == s # <<>> /\ s[1] = t

----------------------------------------------------------------------------
(* commitPattern:                                                          *)
(*   ^(type)(?:\((scope)\)|\()?(!)?: (subject)$                            *)
(* Without the flags s and m, "." does not match a line break and "$"      *)
(* matches only at the end of the text.                                    *)

NoMatch == [ok |-> FALSE, type |-> "", breaking |-> FALSE, subject |-> <<>>]

\* (?P<subject>.*)$ : every remaining token, none of them a line break
IsSubject(s) == \A i \in 1..Len(s) : s[i] # NL

\* (?P<breaking>!)?: (?P<subject>.*)$
MatchTail(type, s) ==
    LET bang == s # <<>> /\ s[1] = "!"
        r    == IF bang THEN Tail(s) ELSE s
    IN  IF Len(r) >= 2 /\ r[1] = ":" /\ r[2] = SP /\ IsSubject(SubSeq(r, 3, Len(r)))
        THEN [ok |-> TRUE, type |-> type, breaking |-> bang,
              subject |-> SubSeq(r, 3, Len(r))]
        ELSE NoMatch

\* [^()\r\n]
IsScopeChar(t) == t \notin {"(", ")", NL}

\* \((?P<scope>[^()\r\n]*)\) : the index of the closing parenthesis, 0 if none
ScopeEnd(s) ==
    IF \E j \in 2..Len(s) : s[j] = ")" /\ \A k \in 2..(j - 1) : IsScopeChar(s[k])
    THEN CHOOSE j \in 2..Len(s) : s[j] = ")" /\ \A k \in 2..(j - 1) : IsScopeChar(s[k])
    ELSE 0

\* (?:\((?P<scope>[^()\r\n]*)\)|\()? followed by the tail; the alternatives are
\* tried in the pattern's order
MatchScope(type, s) ==
    IF s # <<>> /\ s[1] = "("
    THEN LET j    == ScopeEnd(s)
             full == IF j > 0 THEN MatchTail(type, SubSeq(s, j + 1, Len(s))) ELSE NoMatch
         IN  IF full.ok THEN full ELSE MatchTail(type, Tail(s))
    ELSE MatchTail(type, s)

\* commitPattern.FindStringSubmatch(msg)
FindStringSubmatch(msg) ==
    IF msg # <<>> /\ msg[1] \in CommitTypes
    THEN MatchScope(msg[1], Tail(msg))
    ELSE NoMatch

----------------------------------------------------------------------------
(* determineBumpType *)

\* a slip: only the "!" of the first line is looked at
IsBreakingBangOnly(m, msg) == m.breaking

\* isBreaking, for a matched message
IsBreaking(m, msg) == m.breaking \/ Contains(msg, Marker)

\* a slip: a fix raises like a feat
RaiseBumpFixAsFeat(bump, commitType) ==
    IF commitType \in {"feat", "fix"}
    THEN (IF bump # "major" THEN "minor" ELSE bump)
    ELSE bump

\* a slip: the fix branch does not look at what was decided before
RaiseBumpFixOverwrites(bump, commitType) ==
    IF commitType = "feat"
    THEN (IF bump # "major" THEN "minor" ELSE bump)
    ELSE IF commitType = "fix" THEN "patch"
    ELSE bump

\* a slip: every other recognized type raises to patch
RaiseBumpOthersPatch(bump, commitType) ==
    IF commitType = "feat"
    THEN (IF bump # "major" THEN "minor" ELSE bump)
    ELSE IF bump # "major" /\ bump # "minor" THEN "patch"
    ELSE bump

\* the if / else-if on commitType
RaiseBump(bump, commitType) ==
    IF commitType = "feat"
    THEN (IF bump # "major" THEN "minor" ELSE bump)
    ELSE IF commitType = "fix"
    THEN (IF bump # "major" /\ bump # "minor" THEN "patch" ELSE bump)
    ELSE bump

\* the for loop, from message i on, with the bump decided so far
RECURSIVE BumpLoop(_, _, _)
BumpLoop(msgs, i, bump) ==
    IF i > Len(msgs) THEN bump
    ELSE LET msg == TrimSpace(msgs[i])
             m   == FindStringSubmatch(msg)
         IN  IF msg = <<>> \/ HasPrefix(msg, MergePrefix) THEN BumpLoop(msgs, i + 1, bump)
             ELSE IF ~m.ok THEN BumpLoop(msgs, i + 1, bump)
             ELSE IF IsBreaking(m, msg) THEN "major"
             ELSE BumpLoop(msgs, i + 1, RaiseBump(bump, m.type))

determineBumpType(msgs) == BumpLoop(msgs, 1, "none")

----------------------------------------------------------------------------
(* Versions (github.com/Masterminds/semver/v3, as main.go uses it).  A       *)
(* version is major.minor.patch with an optional pre-release; the          *)
(* pre-releases of the model are <identifier>.<number>, the shape          *)
(* calculateNewVersion writes and looks for.  pre = <<>> is "no            *)
(* pre-release"; otherwise pre is the identifier's tokens and n the        *)
(* number.                                                                 *)

Version(ma, mi, pa, pre, n) ==
    [major |-> ma, minor |-> mi, patch |-> pa, pre |-> pre, n |-> n]

\* semver.NewVersion("0.0.0")
ZeroVersion == Version(0, 0, 0, <<>>, 0)

\* v.Prerelease() == ""
IsRelease(v) == v.pre = <<>>

\* Version.IncMajor
IncMajor(v) == Version(v.major + 1, 0, 0, <<>>, 0)

\* Version.IncMinor
IncMinor(v) == Version(v.major, v.minor + 1, 0, <<>>, 0)

\* Version.IncPatch: a version with a pre-release only loses the pre-release,
\* its patch number stays
IncPatch(v) ==
    IF v.pre # <<>>
    THEN Version(v.major, v.minor, v.patch, <<>>, 0)
    ELSE Version(v.major, v.minor, v.patch + 1, <<>>, 0)

\* Version.SetPrerelease(fmt.Sprintf("%s.%d", ident, n))
SetPrerelease(v, ident, n) == Version(v.major, v.minor, v.patch, ident, n)

\* the order of text: the code of the first character of each token
Code(t) ==
    CASE t = "-" -> 45 [] t = "X" -> 88 [] t = "feature" -> 102
      [] t = "rc" -> 114 [] OTHER -> 0

RECURSIVE TextLess(_, _)
TextLess(a, b) ==
    IF b = <<>> THEN FALSE
    ELSE IF a = <<>> THEN TRUE
    ELSE IF Head(a) # Head(b) THEN Code(Head(a)) < Code(Head(b))
    ELSE TextLess(Tail(a), Tail(b))

BaseLess(v, o) ==
    \/ v.major < o.major
    \/ v.major = o.major /\ v.minor < o.minor
    \/ v.major = o.major /\ v.minor = o.minor /\ v.patch < o.patch

SameBase(v, o) == v.major = o.major /\ v.minor = o.minor /\ v.patch = o.patch

\* comparePrerelease: the identifier as text, then the number
PreLess(v, o) == TextLess(v.pre, o.pre) \/ (v.pre = o.pre /\ v.n < o.n)

\* Version.GreaterThan: a release is greater than its pre-releases
GreaterThan(v, o) ==
    \/ BaseLess(o, v)
    \/ /\ SameBase(v, o)
       /\ \/ IsRelease(v) /\ ~IsRelease(o)
          \/ ~IsRelease(v) /\ ~IsRelease(o) /\ PreLess(o, v)

----------------------------------------------------------------------------
(* Numbers and versions as text.  A number is written with one token per   *)
(* digit.                                                                  *)

Digits == <<"0", "1", "2", "3", "4", "5", "6", "7", "8", "9">>

IsDigit(t) == \E d \in 1..Len(Digits) : Digits[d] = t

DigitValue(t) == (CHOOSE d \in 1..Len(Digits) : Digits[d] = t) - 1

\* strconv.FormatUint(n, 10), and the %d of fmt.Sprintf
RECURSIVE FormatUint(_)
FormatUint(n) ==
    IF n < 10 THEN <<Digits[n + 1]>>
    ELSE FormatUint(n \div 10) \o <<Digits[(n % 10) + 1]>>

\* \d+
IsNumber(s) == s # <<>> /\ \A k \in 1..Len(s) : IsDigit(s[k])

\* strconv.Atoi / the library's ParseUint, on a text that is a number
RECURSIVE Atoi(_)
Atoi(s) ==
    IF Len(s) = 1 THEN DigitValue(s[1])
    ELSE 10 * Atoi(SubSeq(s, 1, Len(s) - 1)) + DigitValue(s[Len(s)])

\* strings.Index(s, t) for a one-token t, counted from 1; 0 if t is not in s
Index(s, t) ==
    IF Contains(s, t)
    THEN CHOOSE k \in 1..Len(s) : s[k] = t /\ \A j \in 1..(k - 1) : s[j] # t
    ELSE 0

\* strings.LastIndex(s, t) for a one-token t, counted from 1; 0 if t is not in s
LastIndex(s, t) ==
    IF Contains(s, t)
    THEN CHOOSE k \in 1..Len(s) : s[k] = t /\ \A j \in (k + 1)..Len(s) : s[j] # t
    ELSE 0

\* strings.Split(s, t) for a one-token t: the pieces of s from token k on, the
\* piece begun before k given
RECURSIVE SplitFrom(_, _, _, _)
SplitFrom(s, t, k, piece) ==
    IF k > Len(s) THEN <<piece>>
    ELSE IF s[k] = t THEN <<piece>> \o SplitFrom(s, t, k + 1, <<>>)
    ELSE SplitFrom(s, t, k + 1, Append(piece, s[k]))

Split(s, t) == SplitFrom(s, t, 1, <<>>)

\* strings.ReplaceAll(s, old, new) for a one-token old
RECURSIVE ReplaceAll(_, _, _)
ReplaceAll(s, old, new) ==
    IF s = <<>> THEN <<>>
    ELSE (IF Head(s) = old THEN new ELSE <<Head(s)>>) \o ReplaceAll(Tail(s), old, new)

\* Version.Prerelease()
Prerelease(v) == IF v.pre = <<>> THEN <<>> ELSE v.pre \o <<".">> \o FormatUint(v.n)

\* Version.String()
String(v) ==
    FormatUint(v.major) \o <<".">> \o FormatUint(v.minor) \o <<".">> \o FormatUint(v.patch)
        \o (IF Prerelease(v) # <<>> THEN <<"-">> \o Prerelease(v) ELSE <<>>)

\* [0-9A-Za-z-]: a token an identifier of a pre-release may hold
IsIdentToken(t) ==
    t \notin {".", "+", "/", "_", "v", "{{.Build}}", "{{.Major}}", "{{.Minor}}",
               "{{.Patch}}", "{{.Prerelease}}"}

\* semver.NewVersion(s), for the texts of the model, which are a complete
\* major.minor.patch[-identifier.number] or no version at all: <<the version>>,
\* or <<>> for the error
NewVersion(s) ==
    LET dash    == Index(s, "-")
        core    == Split(IF dash = 0 THEN s ELSE SubSeq(s, 1, dash - 1), ".")
        pre     == IF dash = 0 THEN <<>> ELSE SubSeq(s, dash + 1, Len(s))
        lastDot == LastIndex(pre, ".")
        ident   == SubSeq(pre, 1, lastDot - 1)
        num     == SubSeq(pre, lastDot + 1, Len(pre))
    IN  IF /\ Len(core) = 3
           /\ \A k \in 1..3 : IsNumber(core[k])
           /\ dash # 0 => /\ lastDot > 1
                          /\ IsNumber(num)
                          /\ \A k \in 1..Len(ident) : IsIdentToken(ident[k])
        THEN <<Version(Atoi(core[1]), Atoi(core[2]), Atoi(core[3]),
                       IF dash = 0 THEN <<>> ELSE ident,
                       IF dash = 0 THEN 0 ELSE Atoi(num))>>
        ELSE <<>>

\* the name of the tag of a version: "v" + version
TagName(v) == <<"v">> \o String(v)

\* semver.NewVersion(strings.TrimPrefix(tag, "v")) for a tag that "v*" lists
TagVersion(name) == IF HasPrefix(name, "v") THEN NewVersion(Tail(name)) ELSE <<>>

----------------------------------------------------------------------------
(* git tag -l --sort=-v:refname: the tags in git's descending version       *)
(* order.  Git compares the names as text with their numbers as numbers,  *)
(* so v1.4.0 sorts below v1.4.0-x.0 (it is a prefix of it).                *)

GitLess(v, o) ==
    \/ BaseLess(v, o)
    \/ /\ SameBase(v, o)
       /\ \/ IsRelease(v) /\ ~IsRelease(o)
          \/ ~IsRelease(v) /\ ~IsRelease(o) /\ PreLess(v, o)

RECURSIVE SortedTags(_)
SortedTags(T) ==
    IF T = {} THEN <<>>
    ELSE LET top == CHOOSE t \in T : \A u \in T \ {t} : GitLess(u, t)
         IN  <<top>> \o SortedTags(T \ {top})

----------------------------------------------------------------------------
(* getCurrentVersion: the greatest tag, pre-releases included *)

RECURSIVE LatestLoop(_, _, _)
LatestLoop(list, i, latest) ==
    IF i > Len(list) THEN latest
    ELSE IF latest = <<>> \/ GreaterThan(list[i], latest[1])
    THEN LatestLoop(list, i + 1, <<list[i]>>)
    ELSE LatestLoop(list, i + 1, latest)

getCurrentVersion(T) ==
    LET latest == LatestLoop(SortedTags(T), 1, <<>>)
    IN  IF latest # <<>> THEN latest[1] ELSE ZeroVersion

\* getCurrentReleaseVersion: the first tag without a pre-release
RECURSIVE ReleaseLoop(_, _)
ReleaseLoop(list, i) ==
    IF i > Len(list) THEN ZeroVersion
    ELSE IF IsRelease(list[i]) THEN list[i]
    ELSE ReleaseLoop(list, i + 1)

getCurrentReleaseVersion(T) == ReleaseLoop(SortedTags(T), 1)

----------------------------------------------------------------------------
(* calculateNewVersion *)

\* [^a-zA-Z0-9-]
IsBranchChar(t) == t \notin {"/", "_", "."}

\* regexp.MustCompile(`[^a-zA-Z0-9-]`).ReplaceAllString(branch, "-")
Sanitize(b) == [i \in 1..Len(b) |-> IF IsBranchChar(b[i]) THEN b[i] ELSE "-"]

\* branchPreReleaseRegex matches the tag: v<d>.<d>.<d>-<sanitizedBranch>.<N>
MatchesBranch(tag, sanitizedBranch) == tag.pre # <<>> /\ tag.pre = sanitizedBranch

\* the loop over the tags: <<highestBranchPreRelease>>, or <<>> for nil
RECURSIVE HighestLoop(_, _, _, _)
HighestLoop(list, i, sanitizedBranch, highest) ==
    IF i > Len(list) THEN highest
    ELSE IF /\ MatchesBranch(list[i], sanitizedBranch)
            /\ list[i].n > (IF highest = <<>> THEN -1 ELSE highest[1].n)
    THEN HighestLoop(list, i + 1, sanitizedBranch, <<list[i]>>)
    ELSE HighestLoop(list, i + 1, sanitizedBranch, highest)

\* a slip: the first pre-release of a branch applies the bump
FirstPreReleaseBumps(latestRelease, bump) ==
    CASE bump = "major" -> IncMajor(latestRelease)
      [] bump = "minor" -> IncMinor(latestRelease)
      [] bump = "patch" -> IncPatch(latestRelease)
      [] OTHER -> latestRelease

\* lines 708-712: the base of a branch's first pre-release
FirstPreReleaseBase(latestRelease, bump) == latestRelease

\* lines 640-647
ReleaseBump(current, bump) ==
    CASE bump = "major" -> IncMajor(current)
      [] bump = "minor" -> IncMinor(current)
      [] OTHER -> IncPatch(current)

\* highestBranchPreReleaseNum+1
NextNum(n) == n + 1

\* lines 683-697
BumpedBase(newVer, bump) ==
    CASE bump = "major" -> IncMajor(newVer)
      [] bump = "minor" -> IncMinor(newVer)
      [] bump = "patch" -> IncPatch(newVer)
      [] OTHER -> Version(newVer.major, newVer.minor, newVer.patch, <<>>, 0)

calculateNewVersion(current, bump, br, pre, T) ==
    IF ~pre THEN ReleaseBump(current, bump)
    ELSE LET sanitizedBranch == Sanitize(br)
             highest == HighestLoop(SortedTags(T), 1, sanitizedBranch, <<>>)
         IN  IF highest # <<>>
             THEN SetPrerelease(BumpedBase(highest[1], bump), sanitizedBranch,
                                NextNum(highest[1].n))
             ELSE SetPrerelease(FirstPreReleaseBase(getCurrentReleaseVersion(T), bump),
                                sanitizedBranch, 0)

----------------------------------------------------------------------------
(* The commit messages of the model. *)

Plain(t) == <<t, ":", SP, "w">>

Messages ==
    {Plain(t) : t \in CommitTypes} \cup
    { <<"feat", "!", ":", SP, "w">>,                    \* feat!: w
      <<"chore", "(", "w", ")", "!", ":", SP, "w">>,    \* chore(w)!: w
      <<"fix", "(", ":", SP, "w">>,                     \* fix(: w
      <<"test", ":", SP, "w", SP, Marker, SP, "w">>,    \* test: w BREAKING CHANGE: w
      <<"feat", ":", SP, "w", NL, Marker, SP, "w">>,    \* marker on the second line
      <<SP, "fix", ":", SP, "w", NL>>,                  \* blanks around a fix
      <<MergePrefix, "w", SP, Marker>>,                 \* a merge commit
      <<"w", SP, "w">> }                                \* no type at all

CommitLists == UNION {[1..n -> Messages] : n \in 0..MaxCommits}

----------------------------------------------------------------------------
(* main, line 230: bumpType, err := determineBumpType(commitMessages), and   *)
(* the exit on "none" of lines 236-239.                                    *)

DetermineBump ==
    /\ pc = "determineBump"
    /\ exit = "running"
    /\ bumpType' = determineBumpType(commitMsgs)
    /\ IF bumpType' = "none"
       THEN pc' = "done" /\ exit' = "ok"
       ELSE pc' = "version" /\ exit' = exit
    /\ UNCHANGED <<flags, preRelease, repo, commitMsgs, currentVersion, newVersion,
                   finalTagName, changelogGenerated, retry, effects, reported, runs>>

----------------------------------------------------------------------------
(* Bump resolution alone: every commit list of the model is analysed. *)

\* the default of -tag-format (line 119)
DefaultTagFormat == <<"v", "{{.Major}}", ".", "{{.Minor}}", ".", "{{.Patch}}", "{{.Prerelease}}">>

\* no override given
NoSetVersion == [given |-> FALSE, parses |-> FALSE, version |-> ZeroVersion]

\* the variables of main before main has assigned them
FreshLocals ==
    /\ exit = "running"
    /\ commitMsgs = <<>>
    /\ bumpType = ""
    /\ currentVersion = ZeroVersion
    /\ newVersion = ZeroVersion
    /\ finalTagName = <<>>
    /\ changelogGenerated = FALSE
    /\ retry = 0
    /\ effects = <<>>

\* no flag given, nothing released yet, the first run
PlainRun ==
    /\ setVersion = NoSetVersion
    /\ dryRun = FALSE /\ ciMode = FALSE /\ pushBranch = FALSE
    /\ outputChangelog = FALSE /\ nextVersionOnly = FALSE
    /\ tagFormat = DefaultTagFormat
    /\ otherTags = {} /\ hasRemote = TRUE
    /\ history = <<>> /\ headMsg = <<>>
    /\ changelogFile = <<>> /\ changelogCommits = {}
    /\ remoteTags = {} /\ branchPushed = FALSE
    /\ reported = <<>> /\ runs = 1

InitBump ==
    /\ PlainRun
    /\ branch = <<"main">>
    /\ preReleaseFlag = FALSE
    /\ preRelease = FALSE
    /\ tags = {}
    /\ pc = "determineBump"
    /\ exit = "running"
    /\ commitMsgs \in CommitLists
    /\ bumpType = ""
    /\ currentVersion = ZeroVersion
    /\ newVersion = ZeroVersion
    /\ finalTagName = <<>>
    /\ changelogGenerated = FALSE
    /\ retry = 0
    /\ effects = <<>>

NextBump == DetermineBump

SpecBump == InitBump /\ [][NextBump]_vars

----------------------------------------------------------------------------
(* The tags and branches of the model. *)

Bases == {<<1, 2, 3>>, <<1, 4, 0>>, <<2, 0, 0>>}

Branches == {<<"main">>, <<"feature", "/", "X">>, <<"feature", "-", "X">>, <<"X">>}

\* the identifiers of the pre-release tags: two of the branches above, and one
\* that belongs to no branch of the model
TagIdents == {<<"feature", "-", "X">>, <<"X">>, <<"rc">>}

TagUniverse ==
    {Version(b[1], b[2], b[3], <<>>, 0) : b \in Bases} \cup
    {Version(b[1], b[2], b[3], id, n) : b \in Bases, id \in TagIdents, n \in 0..MaxNum}

\* the sets of at most k tags
RECURSIVE TagSetsUpTo(_)
TagSetsUpTo(k) ==
    IF k = 0 THEN {{}}
    ELSE LET smaller == TagSetsUpTo(k - 1)
         IN  smaller \cup {T \cup {t} : T \in smaller, t \in TagUniverse}

TagSets == TagSetsUpTo(MaxTags)

BumpTypes == {"major", "minor", "patch", "none"}

\* -tag-format: the default; the README's example with the pre-release added, a
\* name "v*" does not list; one with a placeholder the program does not know,
\* a placeholder twice and two placeholders missing; the empty text
TagFormats ==
    { DefaultTagFormat,
      <<"release-", "{{.Major}}", ".", "{{.Minor}}", ".", "{{.Patch}}", "{{.Prerelease}}">>,
      <<"{{.Build}}", "-", "{{.Major}}", ".", "{{.Major}}", "{{.Prerelease}}">>,
      <<>> }

----------------------------------------------------------------------------
(* main, lines 250-274: the override, or calculateNewVersion *)

ComputeVersion ==
    /\ pc = "version"
    /\ exit = "running"
    /\ IF setVersion.given
       THEN IF setVersion.version \in tags \/ ~setVersion.parses
            THEN pc' = "done" /\ exit' = "error" /\ UNCHANGED newVersion
            ELSE pc' = "format" /\ exit' = exit /\ newVersion' = setVersion.version
       ELSE /\ newVersion' = calculateNewVersion(currentVersion, bumpType, branch,
                                                 preRelease, tags)
            /\ pc' = "format" /\ exit' = exit
    /\ UNCHANGED <<flags, preRelease, repo, commitMsgs, bumpType, currentVersion,
                   finalTagName, changelogGenerated, retry, effects, reported, runs>>

----------------------------------------------------------------------------
(* Version calculation alone: every tag set, branch, regime and bump of    *)
(* the model, from the current version getCurrentVersion finds.            *)

InitVersion ==
    /\ PlainRun
    /\ tags \in TagSets
    /\ branch \in Branches
    /\ preReleaseFlag \in BOOLEAN
    /\ preRelease = preReleaseFlag
    /\ bumpType \in BumpTypes
    /\ pc = "version"
    /\ exit = "running"
    /\ commitMsgs = <<>>
    /\ currentVersion = getCurrentVersion(tags)
    /\ newVersion = ZeroVersion
    /\ finalTagName = <<>>
    /\ changelogGenerated = FALSE
    /\ retry = 0
    /\ effects = <<>>

NextVersion == ComputeVersion

SpecVersion == InitVersion /\ [][NextVersion]_vars

----------------------------------------------------------------------------
(* getCommitMessagesBetweenRefs *)

\* git log --format=%B: each message, then a blank line
RECURSIVE GitLog(_)
GitLog(h) ==
    IF h = <<>> THEN <<>> ELSE TrimSpace(Head(h)) \o <<NL, NL>> \o GitLog(Tail(h))

\* strings.Split(out, "\n\n")
RECURSIVE SplitBlankLines(_)
SplitBlankLines(s) ==
    IF \E i \in 1..(Len(s) - 1) : s[i] = NL /\ s[i + 1] = NL
    THEN LET i == CHOOSE k \in 1..(Len(s) - 1) :
                     /\ s[k] = NL /\ s[k + 1] = NL
                     /\ \A j \in 1..(k - 1) : ~(s[j] = NL /\ s[j + 1] = NL)
         IN  <<SubSeq(s, 1, i - 1)>> \o SplitBlankLines(SubSeq(s, i + 2, Len(s)))
    ELSE <<s>>

\* the loop of lines 433-438
RECURSIVE TrimmedNonEmpty(_)
TrimmedNonEmpty(parts) ==
    IF parts = <<>> THEN <<>>
    ELSE LET msg == TrimSpace(Head(parts))
         IN  (IF msg # <<>> THEN <<msg>> ELSE <<>>) \o TrimmedNonEmpty(Tail(parts))

getCommitMessagesBetweenRefs(h) == TrimmedNonEmpty(SplitBlankLines(GitLog(h)))

\* validateCommitMessage
validateCommitMessage(message) ==
    HasPrefix(message, MergePrefix) \/ FindStringSubmatch(message).ok

\* isDefaultBranch, without a remote that names the default branch
isDefaultBranch(b) == b = <<"main">> \/ b = <<"master">>

\* "chore(release): update changelog for %s [skip-ci]"
ChangelogCommitMsg == <<"chore", "(", "w", ")", ":", SP, "w", SP, "[skip-ci]">>

----------------------------------------------------------------------------
(* shouldSkipCI *)

SkipPatterns == {"[skip-ci]", "[ci skip]", "skip-checks: true"}

\* strings.ToLower, on the one token of the model that is a pattern in capitals
ToLower(t) == IF t = "[SKIP-CI]" THEN "[skip-ci]" ELSE t

shouldSkipCI(commitMsg) ==
    \E k \in 1..Len(commitMsg) : ToLower(commitMsg[k]) \in SkipPatterns

----------------------------------------------------------------------------
(* generateReleaseNotes.  An entry and the rendered fragment are text: the  *)
(* tokens of the lines, with the line breaks between them.                 *)

\* lines 498-501
NoEntries ==
    [breakingChanges |-> <<>>, features |-> <<>>, bugFixes |-> <<>>, otherChanges |-> <<>>]

\* lines 521-527: the entry of a breaking commit, with the text after the
\* first marker on a second, indented line
BreakingMsg(msg, commitSubject) ==
    <<"- **", Marker, "** ">> \o commitSubject \o
        (IF Contains(msg, Marker)
         THEN <<NL, "  ">> \o TrimSpace(SubSeq(msg, Index(msg, Marker) + 1, Len(msg)))
         ELSE <<>>)

\* fmt.Sprintf("- **%s:** %s", commitType, commitSubject)
TypedMsg(commitType, commitSubject) == <<"- **", commitType, ":", "** ">> \o commitSubject

\* a slip: the case of fix is missing, and a fix is listed nowhere
CategorizedDropsFix(c, commitType, commitSubject) ==
    CASE commitType = "feat" ->
            [c EXCEPT !.features = Append(@, TypedMsg("feat", commitSubject))]
      [] commitType = "fix" -> c
      [] OTHER ->
            IF commitType \notin {"docs", "style", "test", "chore"}
            THEN [c EXCEPT !.otherChanges = Append(@, TypedMsg(commitType, commitSubject))]
            ELSE c

\* lines 533-543: the switch on commitType
Categorized(c, commitType, commitSubject) ==
    CASE commitType = "feat" ->
            [c EXCEPT !.features = Append(@, TypedMsg("feat", commitSubject))]
      [] commitType = "fix" ->
            [c EXCEPT !.bugFixes = Append(@, TypedMsg("fix", commitSubject))]
      [] OTHER ->
            IF commitType \notin {"docs", "style", "test", "chore"}
            THEN [c EXCEPT !.otherChanges = Append(@, TypedMsg(commitType, commitSubject))]
            ELSE c

\* a slip: a breaking commit is listed under its type too
CategorizeListsBreakingTwice(c, msg) ==
    LET m == FindStringSubmatch(msg)
    IN  IF shouldSkipCI(msg) \/ HasPrefix(msg, MergePrefix) THEN c
        ELSE IF ~m.ok THEN [c EXCEPT !.otherChanges = Append(@, Split(msg, NL)[1])]
        ELSE IF IsBreaking(m, msg)
        THEN Categorized([c EXCEPT !.breakingChanges = Append(@, BreakingMsg(msg, m.subject))],
                         m.type, m.subject)
        ELSE Categorized(c, m.type, m.subject)

\* lines 504-544: the body of the loop, for one message
Categorize(c, msg) ==
    LET m == FindStringSubmatch(msg)
    IN  IF shouldSkipCI(msg) \/ HasPrefix(msg, MergePrefix) THEN c
        ELSE IF ~m.ok THEN [c EXCEPT !.otherChanges = Append(@, Split(msg, NL)[1])]
        ELSE IF IsBreaking(m, msg)
        THEN [c EXCEPT !.breakingChanges = Append(@, BreakingMsg(msg, m.subject))]
        ELSE Categorized(c, m.type, m.subject)

\* lines 503-545: the loop, from message k on
RECURSIVE CategorizeLoop(_, _, _)
CategorizeLoop(msgs, k, c) ==
    IF k > Len(msgs) THEN c ELSE CategorizeLoop(msgs, k + 1, Categorize(c, msgs[k]))

\* the loops that write the entries of a section, a line break after each
RECURSIVE WriteEntries(_)
WriteEntries(entries) ==
    IF entries = <<>> THEN <<>> ELSE Head(entries) \o <<NL>> \o WriteEntries(Tail(entries))

\* lines 551-581: one section, written only if it has entries
WriteSection(title, entries) ==
    IF Len(entries) > 0 THEN <<title, NL, NL>> \o WriteEntries(entries) \o <<NL>> ELSE <<>>

\* a slip: the features come before the breaking changes
NewChangelogContentFeaturesFirst(c, newTagForHeader) ==
    <<"## ">> \o newTagForHeader \o <<SP, "(", "date", ")", NL, NL>>
        \o WriteSection("### Features", c.features)
        \o WriteSection("### BREAKING CHANGES", c.breakingChanges)
        \o WriteSection("### Bug Fixes", c.bugFixes)
        \o WriteSection("### Other Changes", c.otherChanges)

\* lines 547-583: the header with the tag and the date, then the sections
NewChangelogContent(c, newTagForHeader) ==
    <<"## ">> \o newTagForHeader \o <<SP, "(", "date", ")", NL, NL>>
        \o WriteSection("### BREAKING CHANGES", c.breakingChanges)
        \o WriteSection("### Features", c.features)
        \o WriteSection("### Bug Fixes", c.bugFixes)
        \o WriteSection("### Other Changes", c.otherChanges)

\* generateReleaseNotes, when it succeeds: the new content of the file, the
\* fragment before the existing content
generateReleaseNotes(h, newTagForHeader, existingContent) ==
    NewChangelogContent(CategorizeLoop(getCommitMessagesBetweenRefs(h), 1, NoEntries),
                        newTagForHeader) \o existingContent

----------------------------------------------------------------------------
(* The steps of main. *)

Fail == pc' = "done" /\ exit' = "error"

\* lines 133-189: the checks of the repository, the branch, the regime
Start ==
    /\ pc = "start"
    /\ \/ /\ Fail
          /\ UNCHANGED preRelease
       \/ /\ pc' = "getVersion"
          /\ preRelease' = (preRelease \/ ~isDefaultBranch(branch))
          /\ UNCHANGED exit
    /\ UNCHANGED <<flags, repo, locals, effects, reported, runs>>

\* lines 192-202
GetCurrentVersion ==
    /\ pc = "getVersion"
    /\ currentVersion' = getCurrentVersion(tags)
    /\ pc' = "getCommits"
    /\ UNCHANGED <<flags, preRelease, repo, exit, commitMsgs, bumpType, newVersion,
                   finalTagName, changelogGenerated, retry, effects, reported, runs>>

\* lines 204-208
GetCommits ==
    /\ pc = "getCommits"
    /\ commitMsgs' = getCommitMessagesBetweenRefs(history)
    /\ pc' = "validate"
    /\ UNCHANGED <<flags, preRelease, repo, exit, bumpType, currentVersion, newVersion,
                   finalTagName, changelogGenerated, retry, effects, reported, runs>>

\* lines 218-228
ValidateLatest ==
    /\ pc = "validate"
    /\ IF validateCommitMessage(TrimSpace(headMsg))
       THEN pc' = "determineBump" /\ UNCHANGED exit
       ELSE Fail
    /\ UNCHANGED <<flags, preRelease, repo, locals, effects, reported, runs>>

\* a slip: the pre-release is written without its hyphen
PrereleasePartNoHyphen(v) == Prerelease(v)

\* lines 314-325: what {{.Prerelease}} is replaced by
PrereleasePart(v) == IF Prerelease(v) # <<>> THEN <<"-">> \o Prerelease(v) ELSE <<>>

\* lines 294-326: the four strings.ReplaceAll, one after the other
Format(template, v) ==
    ReplaceAll(
        ReplaceAll(
            ReplaceAll(
                ReplaceAll(template, "{{.Major}}", FormatUint(v.major)),
                "{{.Minor}}", FormatUint(v.minor)),
            "{{.Patch}}", FormatUint(v.patch)),
        "{{.Prerelease}}", PrereleasePart(v))

\* lines 280-335: the tag name, and the exit of -next-version-only.  newVersion
\* is text in main: it is written by Version.String and parsed again here.
FormatTag ==
    /\ pc = "format"
    /\ LET parsedNewVer == NewVersion(String(newVersion))
       IN  IF tagFormat # <<>> /\ parsedNewVer = <<>>
           THEN Fail /\ UNCHANGED <<finalTagName, reported>>
           ELSE /\ finalTagName' = IF tagFormat # <<>>
                                   THEN Format(tagFormat, parsedNewVer[1])
                                   ELSE <<"v">> \o String(newVersion)
                /\ IF nextVersionOnly
                   THEN /\ reported' = Append(reported, finalTagName')
                        /\ pc' = "done" /\ exit' = "ok"
                   ELSE /\ pc' = "notes"
                        /\ UNCHANGED <<reported, exit>>
    /\ UNCHANGED <<flags, preRelease, repo, commitMsgs, bumpType, currentVersion,
                   newVersion, changelogGenerated, retry, effects, runs>>

\* the names of the tags of the repository
ExistingTagNames == {TagName(v) : v \in tags} \cup otherTags

\* lines 342-363: generateReleaseNotes writes CHANGELOG.md, or fails (git log,
\* or the file cannot be read or written)
GenerateNotes ==
    /\ pc = "notes"
    /\ pc' = "commitNotes"
    /\ IF outputChangelog /\ ~preRelease /\ ~dryRun
       THEN \/ /\ changelogFile' = generateReleaseNotes(history, finalTagName, changelogFile)
               /\ changelogGenerated' = TRUE
               /\ effects' = Append(effects, "notes")
            \/ /\ effects' = Append(effects, "notesFailed")
               /\ UNCHANGED <<changelogFile, changelogGenerated>>
       ELSE UNCHANGED <<changelogFile, changelogGenerated, effects>>
    /\ UNCHANGED <<flags, preRelease, tags, otherTags, hasRemote, history, headMsg,
                   changelogCommits, remoteTags, branchPushed, exit, commitMsgs, bumpType,
                   currentVersion, newVersion, finalTagName, retry, reported, runs>>

\* a slip: a failed commit of the changelog is only reported
CommitNotesGoesOn ==
    /\ pc = "commitNotes"
    /\ pc' = "createTag"
    /\ IF changelogGenerated /\ ~dryRun
       THEN \/ /\ changelogCommits' = changelogCommits \cup {finalTagName}
               /\ history' = <<ChangelogCommitMsg>> \o history
               /\ headMsg' = ChangelogCommitMsg
               /\ effects' = Append(effects, "commit")
            \/ /\ effects' = Append(effects, "commitFailed")
               /\ UNCHANGED <<changelogCommits, history, headMsg>>
       ELSE UNCHANGED <<changelogCommits, history, headMsg, effects>>
    /\ UNCHANGED <<flags, preRelease, tags, otherTags, hasRemote, changelogFile, remoteTags,
                   branchPushed, exit, locals, reported, runs>>

\* lines 366-375: addAndCommitChangelog commits, or fails
CommitNotes ==
    /\ pc = "commitNotes"
    /\ IF changelogGenerated /\ ~dryRun
       THEN \/ /\ changelogCommits' = changelogCommits \cup {finalTagName}
               /\ history' = <<ChangelogCommitMsg>> \o history
               /\ headMsg' = ChangelogCommitMsg
               /\ effects' = Append(effects, "commit")
               /\ pc' = "createTag"
               /\ UNCHANGED exit
            \/ /\ Fail
               /\ effects' = Append(effects, "commitFailed")
               /\ UNCHANGED <<changelogCommits, history, headMsg>>
       ELSE /\ pc' = "createTag"
            /\ UNCHANGED <<changelogCommits, history, headMsg, exit, effects>>
    /\ UNCHANGED <<flags, preRelease, tags, otherTags, hasRemote, changelogFile, remoteTags,
                   branchPushed, locals, reported, runs>>

\* git tag -a: the new tag is at HEAD.  A tag that "v*" lists and that parses is
\* a version tag; when it is the greatest, no commit is left after the current
\* version's tag.
TagCreated ==
    LET v == TagVersion(finalTagName)
    IN  /\ IF v # <<>>
           THEN tags' = tags \cup {v[1]} /\ UNCHANGED otherTags
           ELSE otherTags' = otherTags \cup {finalTagName} /\ UNCHANGED tags
        /\ history' = IF v # <<>> /\ getCurrentVersion(tags') = v[1] THEN <<>> ELSE history

\* a slip: the tag is created in a dry run too
CreateTagIgnoresDryRun ==
    /\ pc = "createTag"
    /\ reported' = Append(reported, finalTagName)
    /\ IF finalTagName \in ExistingTagNames
       THEN Fail /\ UNCHANGED <<tags, otherTags, history, effects>>
       ELSE TagCreated /\ pc' = "push" /\ UNCHANGED <<exit, effects>>
    /\ UNCHANGED <<flags, preRelease, hasRemote, headMsg, changelogFile,
                   changelogCommits, remoteTags, branchPushed, locals, runs>>

\* lines 378-386: createGitTag creates the tag, or fails; git refuses a name
\* that exists, and the error of cmd.Run does not hold git's message
CreateTag ==
    /\ pc = "createTag"
    /\ reported' = Append(reported, finalTagName)
    /\ IF dryRun
       THEN pc' = "push" /\ UNCHANGED <<tags, otherTags, history, exit, effects>>
       ELSE IF finalTagName \in ExistingTagNames
       THEN /\ Fail
            /\ effects' = Append(effects, "tagFailed")
            /\ UNCHANGED <<tags, otherTags, history>>
       ELSE \/ /\ TagCreated
               /\ effects' = Append(effects, "tag")
               /\ pc' = "push"
               /\ UNCHANGED exit
            \/ /\ Fail
               /\ effects' = Append(effects, "tagFailed")
               /\ UNCHANGED <<tags, otherTags, history>>
    /\ UNCHANGED <<flags, preRelease, hasRemote, headMsg, changelogFile,
                   changelogCommits, remoteTags, branchPushed, locals, runs>>

\* line 804
maxRetries == 2

\* lines 389-399 and 790-804: whether to push, and pushTag up to its loop
PushTag ==
    /\ pc = "push"
    /\ IF (ciMode \/ pushBranch) /\ ~dryRun
       THEN IF hasRemote
            THEN pc' = "pushAttempt" /\ retry' = 0 /\ UNCHANGED exit
            ELSE Fail /\ UNCHANGED retry
       ELSE pc' = "done" /\ exit' = "ok" /\ UNCHANGED retry
    /\ UNCHANGED <<flags, preRelease, repo, commitMsgs, bumpType, currentVersion,
                   newVersion, finalTagName, changelogGenerated, effects, reported, runs>>

\* a slip: the loop goes on after the last retry
PushAttemptNoLimit ==
    /\ pc = "pushAttempt"
    /\ \/ /\ remoteTags' = remoteTags \cup {finalTagName}
          /\ effects' = Append(effects, "push")
          /\ pc' = "pushTrack"
          /\ UNCHANGED <<retry, exit>>
       \/ /\ effects' = Append(effects, "pushFailed")
          /\ IF retry = maxRetries + 1
             THEN Fail /\ UNCHANGED retry
             ELSE retry' = retry + 1 /\ UNCHANGED <<pc, exit>>
          /\ UNCHANGED remoteTags
    /\ UNCHANGED <<flags, preRelease, tags, otherTags, hasRemote, history, headMsg,
                   changelogFile, changelogCommits, branchPushed, commitMsgs, bumpType,
                   currentVersion, newVersion, finalTagName, changelogGenerated,
                   reported, runs>>

\* lines 805-821: one pass of the loop: git push origin <tag> succeeds, or fails
PushAttempt ==
    /\ pc = "pushAttempt"
    /\ \/ /\ remoteTags' = remoteTags \cup {finalTagName}
          /\ effects' = Append(effects, "push")
          /\ pc' = "pushTrack"
          /\ UNCHANGED <<retry, exit>>
       \/ /\ effects' = Append(effects, "pushFailed")
          /\ IF retry = maxRetries
             THEN Fail /\ UNCHANGED retry
             ELSE retry' = retry + 1 /\ UNCHANGED <<pc, exit>>
          /\ UNCHANGED remoteTags
    /\ UNCHANGED <<flags, preRelease, tags, otherTags, hasRemote, history, headMsg,
                   changelogFile, changelogCommits, branchPushed, commitMsgs, bumpType,
                   currentVersion, newVersion, finalTagName, changelogGenerated,
                   reported, runs>>

\* lines 823-835: pushTag pushes the branch if HEAD is on one, whatever comes
\* of it, and returns nil
PushTrack ==
    /\ pc = "pushTrack"
    /\ \/ /\ effects' = Append(effects, "track")
          /\ branchPushed' \in {branchPushed, TRUE}
       \/ UNCHANGED <<effects, branchPushed>>
    /\ pc' = "pushBranch"
    /\ UNCHANGED <<flags, preRelease, tags, otherTags, hasRemote, history, headMsg,
                   changelogFile, changelogCommits, remoteTags, exit, locals, reported, runs>>

\* lines 400-408: pushCurrentBranch, whose failure is only a warning
PushCurrentBranch ==
    /\ pc = "pushBranch"
    /\ effects' = Append(effects, "branch")
    /\ branchPushed' \in {branchPushed, TRUE}
    /\ pc' = "done" /\ exit' = "ok"
    /\ UNCHANGED <<flags, preRelease, tags, otherTags, hasRemote, history, headMsg,
                   changelogFile, changelogCommits, remoteTags, locals, reported, runs>>

\* a new process, the same command line, the repository as the last run left it
NewProcess ==
    /\ pc = "done"
    /\ runs < MaxRuns
    /\ runs' = runs + 1
    /\ pc' = "start"
    /\ preRelease' = preReleaseFlag
    /\ exit' = "running"
    /\ commitMsgs' = <<>>
    /\ bumpType' = ""
    /\ currentVersion' = ZeroVersion
    /\ newVersion' = ZeroVersion
    /\ finalTagName' = <<>>
    /\ changelogGenerated' = FALSE
    /\ retry' = 0
    /\ effects' = <<>>
    /\ UNCHANGED <<flags, repo, reported>>

\* the caller repeats a dry run
Rerun == dryRun /\ NewProcess

\* the caller runs the program again after a run that was no dry run
RunAgain == ~dryRun /\ NewProcess

----------------------------------------------------------------------------
(* A run of main. *)

\* the messages of the commits of a run
RawMessages ==
    { Plain("feat"), Plain("fix"), Plain("chore"),
      <<"feat", "!", ":", SP, "w">>,
      <<"fix", ":", SP, "w", NL, NL, Marker, SP, "w">>,  \* a body after a blank line
      <<MergePrefix, "w">>,
      <<"w", SP, "w">> }

Histories == UNION {[1..n -> RawMessages] : n \in 0..MaxHistory}

MainBranches == {<<"main">>, <<"feature", "/", "X">>}

MainTagSets ==
    { {},
      {Version(1, 2, 3, <<>>, 0)},
      {Version(1, 2, 3, <<>>, 0), Version(1, 4, 0, <<"feature", "-", "X">>, 0)} }

\* -set-version: absent, a new version, the version of an existing tag, or text
\* that is no version
SetVersions ==
    { NoSetVersion,
      [given |-> TRUE, parses |-> TRUE, version |-> Version(3, 0, 0, <<>>, 0)],
      [given |-> TRUE, parses |-> TRUE, version |-> Version(1, 2, 3, <<>>, 0)],
      [given |-> TRUE, parses |-> FALSE, version |-> ZeroVersion] }

Init ==
    /\ branch \in MainBranches
    /\ preReleaseFlag \in BOOLEAN
    /\ setVersion \in SetVersions
    /\ dryRun \in BOOLEAN
    /\ ciMode \in BOOLEAN
    /\ pushBranch \in BOOLEAN
    /\ outputChangelog \in BOOLEAN
    /\ nextVersionOnly \in BOOLEAN
    /\ tagFormat = DefaultTagFormat
    /\ tags \in MainTagSets
    /\ otherTags = {}
    /\ hasRemote \in BOOLEAN
    /\ history \in Histories
    /\ headMsg \in RawMessages
    /\ history # <<>> => headMsg = history[1]
    /\ tags = {} => history # <<>>
    /\ changelogFile = <<>>
    /\ changelogCommits = {}
    /\ remoteTags = {}
    /\ branchPushed = FALSE
    /\ pc = "start"
    /\ preRelease = preReleaseFlag
    /\ FreshLocals
    /\ reported = <<>>
    /\ runs = 1

Next ==
    \/ Start
    \/ GetCurrentVersion
    \/ GetCommits
    \/ ValidateLatest
    \/ DetermineBump
    \/ ComputeVersion
    \/ FormatTag
    \/ GenerateNotes
    \/ CommitNotes
    \/ CreateTag
    \/ PushTag
    \/ PushAttempt
    \/ PushTrack
    \/ PushCurrentBranch
    \/ Rerun

Spec == Init /\ [][Next]_vars

----------------------------------------------------------------------------
(* Releases one after the other: runs that are no dry run, for every tag   *)
(* template of the model, each run in the repository the run before left.  *)

InitTags ==
    /\ branch \in MainBranches
    /\ preReleaseFlag \in BOOLEAN
    /\ preRelease = preReleaseFlag
    /\ setVersion = NoSetVersion
    /\ dryRun = FALSE
    /\ ciMode \in BOOLEAN
    /\ pushBranch = FALSE
    /\ outputChangelog \in BOOLEAN
    /\ nextVersionOnly = FALSE
    /\ tagFormat \in TagFormats
    /\ tags \in MainTagSets
    /\ otherTags = {}
    /\ hasRemote = TRUE
    /\ history \in Histories
    /\ history # <<>>
    /\ headMsg = history[1]
    /\ changelogFile = <<>> /\ changelogCommits = {}
    /\ remoteTags = {} /\ branchPushed = FALSE
    /\ pc = "start"
    /\ FreshLocals
    /\ reported = <<>> /\ runs = 1

NextTags ==
    \/ Start
    \/ GetCurrentVersion
    \/ GetCommits
    \/ ValidateLatest
    \/ DetermineBump
    \/ ComputeVersion
    \/ FormatTag
    \/ GenerateNotes
    \/ CommitNotes
    \/ CreateTag
    \/ PushTag
    \/ PushAttempt
    \/ PushTrack
    \/ PushCurrentBranch
    \/ RunAgain

SpecTags == InitTags /\ [][NextTags]_vars

----------------------------------------------------------------------------
(* The end of a run alone, from the tag name to the pushes, for every      *)
(* version of the model given by -set-version, with and without a remote.  *)
(* Once main is at the push, each step that can be taken is taken: no     *)
(* step waits for anything but the command it runs, and time.Sleep ends.   *)

InitPush ==
    /\ branch = <<"main">>
    /\ preReleaseFlag = FALSE
    /\ preRelease = FALSE
    /\ newVersion \in TagUniverse
    /\ setVersion = [given |-> TRUE, parses |-> TRUE, version |-> newVersion]
    /\ dryRun \in BOOLEAN
    /\ ciMode \in BOOLEAN
    /\ pushBranch \in BOOLEAN
    /\ outputChangelog = FALSE
    /\ nextVersionOnly = FALSE
    /\ tagFormat = DefaultTagFormat
    /\ tags = {} /\ otherTags = {}
    /\ hasRemote \in BOOLEAN
    /\ history = <<Plain("feat")>> /\ headMsg = Plain("feat")
    /\ changelogFile = <<>> /\ changelogCommits = {}
    /\ remoteTags = {} /\ branchPushed = FALSE
    /\ pc = "format"
    /\ exit = "running"
    /\ commitMsgs = <<Plain("feat")>>
    /\ bumpType = "minor"
    /\ currentVersion = ZeroVersion
    /\ finalTagName = <<>>
    /\ changelogGenerated = FALSE
    /\ retry = 0
    /\ effects = <<>>
    /\ reported = <<>> /\ runs = 1

NextPush ==
    \/ FormatTag
    \/ GenerateNotes
    \/ CommitNotes
    \/ CreateTag
    \/ PushTag
    \/ PushAttempt
    \/ PushTrack
    \/ PushCurrentBranch

SpecPush ==
    /\ InitPush
    /\ [][NextPush]_vars
    /\ WF_vars(PushTag)
    /\ WF_vars(PushAttempt)
    /\ WF_vars(PushTrack)
    /\ WF_vars(PushCurrentBranch)

----------------------------------------------------------------------------
(* The changelog alone: a run with -output-changelog on the default branch *)
(* of a repository without tags, for every history of the model, from the  *)
(* reading of the commits to the commit of CHANGELOG.md.                   *)

NoteMessages ==
    { Plain("feat"),
      <<"feat", ":", SP, "x">>,                          \* feat: x
      Plain("fix"),
      Plain("refactor"),
      Plain("docs"),
      <<"feat", "!", ":", SP, "w">>,                     \* feat!: w
      <<"chore", "!", ":", SP, "w">>,                    \* chore!: w
      <<"fix", ":", SP, "w", SP, Marker, SP, "x">>,      \* fix: w BREAKING CHANGE: x
      <<"feat", ":", SP, "w", SP, "[SKIP-CI]">>,         \* a feat not meant for the notes
      <<"feat", ":", SP, "w", NL, "x">>,                 \* a feat with a second line
      <<MergePrefix, "w">>,                              \* a merge commit
      <<"w", SP, "w">> }                                 \* no type at all

NoteHistories == UNION {[1..n -> NoteMessages] : n \in 1..MaxCommits}

InitNotes ==
    /\ branch = <<"main">>
    /\ preReleaseFlag = FALSE
    /\ preRelease = FALSE
    /\ setVersion = NoSetVersion
    /\ dryRun = FALSE /\ ciMode = FALSE /\ pushBranch = FALSE
    /\ outputChangelog = TRUE
    /\ nextVersionOnly = FALSE
    /\ tagFormat = DefaultTagFormat
    /\ tags = {} /\ otherTags = {} /\ hasRemote = TRUE
    /\ history \in NoteHistories
    /\ headMsg = history[1]
    /\ changelogFile = <<>> /\ changelogCommits = {}
    /\ remoteTags = {} /\ branchPushed = FALSE
    /\ pc = "getCommits"
    /\ FreshLocals
    /\ reported = <<>> /\ runs = 1

NextNotes ==
    \/ GetCommits
    \/ ValidateLatest
    \/ DetermineBump
    \/ ComputeVersion
    \/ FormatTag
    \/ GenerateNotes
    \/ CommitNotes

SpecNotes == InitNotes /\ [][NextNotes]_vars

----------------------------------------------------------------------------
(* Tag formatting alone: every version and template of the model.  The     *)
(* version comes from -set-version, in a repository with one feat commit   *)
(* and no tag.                                                             *)

InitFormat ==
    /\ branch = <<"main">>
    /\ preReleaseFlag = FALSE
    /\ preRelease = FALSE
    /\ newVersion \in TagUniverse
    /\ setVersion = [given |-> TRUE, parses |-> TRUE, version |-> newVersion]
    /\ dryRun = FALSE /\ ciMode = FALSE /\ pushBranch = FALSE
    /\ outputChangelog = FALSE
    /\ nextVersionOnly \in BOOLEAN
    /\ tagFormat \in TagFormats
    /\ tags = {} /\ otherTags = {} /\ hasRemote = TRUE
    /\ history = <<Plain("feat")>> /\ headMsg = Plain("feat")
    /\ changelogFile = <<>> /\ changelogCommits = {}
    /\ remoteTags = {} /\ branchPushed = FALSE
    /\ pc = "format"
    /\ exit = "running"
    /\ commitMsgs = <<Plain("feat")>>
    /\ bumpType = "minor"
    /\ currentVersion = ZeroVersion
    /\ finalTagName = <<>>
    /\ changelogGenerated = FALSE
    /\ retry = 0
    /\ effects = <<>>
    /\ reported = <<>> /\ runs = 1

NextFormat == FormatTag

SpecFormat == InitFormat /\ [][NextFormat]_vars

----------------------------------------------------------------------------
(* What the claims say about a commit message, stated on the message's     *)
(* text and not through determineBumpType.                                 *)

Analysed == pc # "determineBump"

\* the message as determineBumpType sees it, parsed by the grammar
Parsed(msg) == FindStringSubmatch(TrimSpace(msg))

\* a commit the grammar recognizes
Recognized(msg) == Parsed(msg).ok

\* a recognized commit marked breaking, by "!" or by the marker
RecognizedBreaking(msg) ==
    /\ Recognized(msg)
    /\ Parsed(msg).breaking \/ \E i \in 1..Len(msg) : msg[i] = Marker

\* a recognized commit of type t that is not marked breaking
QuietOfType(msg, T) ==
    Recognized(msg) /\ ~RecognizedBreaking(msg) /\ Parsed(msg).type \in T

NonBumpingTypes == CommitTypes \ {"feat", "fix"}

\* the first line of a message, and the lines after it
FirstNL(s) ==
    IF \E i \in 1..Len(s) : s[i] = NL
    THEN CHOOSE i \in 1..Len(s) : s[i] = NL /\ \A k \in 1..(i - 1) : s[k] # NL
    ELSE Len(s) + 1
FirstLine(s) == SubSeq(s, 1, FirstNL(s) - 1)
Body(s) == SubSeq(s, FirstNL(s) + 1, Len(s))

\* a message whose first line matches the grammar and whose body holds the marker
BodyMarked(msg) ==
    /\ FindStringSubmatch(FirstLine(TrimSpace(msg))).ok
    /\ \E i \in 1..Len(Body(TrimSpace(msg))) : Body(TrimSpace(msg))[i] = Marker

Positions == 1..Len(commitMsgs)

\* the permutations of 1..n, and a list reordered by one
Perms(n) == Permutations(1..n)
Permute(s, p) == [i \in 1..Len(s) |-> s[p[i]]]

\* the order none < patch < minor < major
Rank(b) == CASE b = "none" -> 0 [] b = "patch" -> 1 [] b = "minor" -> 2 [] b = "major" -> 3

----------------------------------------------------------------------------
\* C1: a commit list with at least one recognized commit marked breaking, by "!"
\* or by the marker BREAKING CHANGE:, gives "major", whatever the other commits
\* are and wherever the breaking commit stands.
C1_BreakingGivesMajor ==
    (Analysed /\ \E i \in Positions : RecognizedBreaking(commitMsgs[i]))
        => bumpType = "major"

\* a feat first and a commit marked breaking only by the marker last
C1_Witness ==
    /\ Analysed
    /\ Len(commitMsgs) = 2
    /\ QuietOfType(commitMsgs[1], {"feat"})
    /\ RecognizedBreaking(commitMsgs[2])
    /\ ~Parsed(commitMsgs[2]).breaking

\* C2: a message whose first line matches the grammar and whose later lines hold
\* BREAKING CHANGE: is a breaking commit: a list holding it gives "major", also
\* without "!" on the first line.
C2_BodyMarkerGivesMajor ==
    (Analysed /\ \E i \in Positions : BodyMarked(commitMsgs[i]))
        => bumpType = "major"

\* C6: a list of recognized, non-breaking commits, each a fix or of a non-bumping
\* type, with a fix among them and no feat, gives "patch".
C6_FixesGivePatch ==
    ( /\ Analysed
      /\ \A i \in Positions : QuietOfType(commitMsgs[i], {"fix"} \cup NonBumpingTypes)
      /\ \E i \in Positions : QuietOfType(commitMsgs[i], {"fix"}) )
        => bumpType = "patch"

\* a fix between two commits of non-bumping types
C6_Witness ==
    /\ Analysed
    /\ Len(commitMsgs) = 3
    /\ QuietOfType(commitMsgs[1], NonBumpingTypes)
    /\ QuietOfType(commitMsgs[2], {"fix"})
    /\ QuietOfType(commitMsgs[3], NonBumpingTypes)

\* C7 as stated: a list with no recognized commit of type feat or fix gives
\* "none".
C7_NoFeatNoFixGivesNone ==
    ( /\ Analysed
      /\ \A i \in Positions :
            ~(Recognized(commitMsgs[i]) /\ Parsed(commitMsgs[i]).type \in {"feat", "fix"}) )
        => bumpType = "none"

\* C7 as amended: a list with no recognized commit of type feat or fix and no
\* recognized commit marked breaking gives "none".
C7_NoFeatNoFixNoBreakingGivesNone ==
    ( /\ Analysed
      /\ \A i \in Positions :
            /\ ~(Recognized(commitMsgs[i]) /\ Parsed(commitMsgs[i]).type \in {"feat", "fix"})
            /\ ~RecognizedBreaking(commitMsgs[i]) )
        => bumpType = "none"

\* a recognized commit of a non-bumping type beside an unrecognized message
C7_Witness ==
    /\ Analysed
    /\ Len(commitMsgs) = 2
    /\ QuietOfType(commitMsgs[1], NonBumpingTypes)
    /\ ~Recognized(commitMsgs[2])

\* C8: the bump does not depend on the order of the list: every permutation of
\* the list gives the bump the list gave, and a list with a recognized feat never
\* gives less than "minor", wherever a fix stands.
C8_OrderIndependent ==
    Analysed =>
        /\ \A p \in Perms(Len(commitMsgs)) :
              determineBumpType(Permute(commitMsgs, p)) = bumpType
        /\ (\E i \in Positions : Recognized(commitMsgs[i]) /\ Parsed(commitMsgs[i]).type = "feat")
              => Rank(bumpType) >= Rank("minor")

\* a feat followed by a fix
C8_Witness ==
    /\ Analysed
    /\ Len(commitMsgs) = 2
    /\ QuietOfType(commitMsgs[1], {"feat"})
    /\ QuietOfType(commitMsgs[2], {"fix"})

----------------------------------------------------------------------------
(* What the claims say about versions and tags, stated on the tag set.     *)

Calculated == pc = "format" /\ ~setVersion.given

\* the bump of the release regime as the specification words it
SpecBumped(v, bump) ==
    CASE bump = "major" -> Version(v.major + 1, 0, 0, <<>>, 0)
      [] bump = "minor" -> Version(v.major, v.minor + 1, 0, <<>>, 0)
      [] OTHER -> Version(v.major, v.minor, v.patch + 1, <<>>, 0)

\* the branch name with every character outside [a-zA-Z0-9-] replaced by "-"
SpecSanitized(b) == [i \in 1..Len(b) |-> IF b[i] \in {"/", "_", "."} THEN "-" ELSE b[i]]

\* the tags v<major>.<minor>.<patch>-<sanitizedBranch>.<N> of the branch
BranchTags == {t \in tags : t.pre # <<>> /\ t.pre = SpecSanitized(branch)}

\* the latest release version, 0.0.0 when there is none
ReleaseTags == {t \in tags : t.pre = <<>>}
LatestRelease ==
    IF ReleaseTags = {} THEN Version(0, 0, 0, <<>>, 0)
    ELSE CHOOSE t \in ReleaseTags : \A u \in ReleaseTags \ {t} : BaseLess(u, t)

\* C3: in the release regime, whatever the current version is, with or without a
\* pre-release: major gives (major+1).0.0, minor gives major.(minor+1).0, patch
\* or anything else gives major.minor.(patch+1), and the result has no
\* pre-release.
C3_ReleaseRegimeBump ==
    (Calculated /\ ~preRelease)
        => newVersion = SpecBumped(currentVersion, bumpType)

\* C4: in the pre-release regime with tags of the branch, the result is the
\* requested bump (major, minor or patch, by the release rules) of the base of
\* a tag of the branch with the highest N, with the pre-release
\* <sanitizedBranch>.<N+1>.
C4_PreReleaseIncrement ==
    (Calculated /\ preRelease /\ BranchTags # {} /\ bumpType \in {"major", "minor", "patch"})
        => \E h \in BranchTags :
              /\ \A t \in BranchTags : t.n <= h.n
              /\ newVersion =
                    [SpecBumped(Version(h.major, h.minor, h.patch, <<>>, 0), bumpType)
                        EXCEPT !.pre = SpecSanitized(branch), !.n = h.n + 1]

----------------------------------------------------------------------------
(* What the claims say about the changelog, stated on the text of           *)
(* CHANGELOG.md and on the commit list.                                    *)

\* the first run has written its fragment into the empty CHANGELOG.md
NotesWritten == Contains(effects, "notes") /\ runs = 1

SectionTitles ==
    <<"### BREAKING CHANGES", "### Features", "### Bug Fixes", "### Other Changes">>

TitleSet == {SectionTitles[k] : k \in 1..Len(SectionTitles)}

\* the lines of a text
TextLines(text) == Split(text, NL)

\* the lines from line k up to the next empty line
RECURSIVE LinesToBlank(_, _)
LinesToBlank(lines, k) ==
    IF k > Len(lines) \/ lines[k] = <<>> THEN <<>>
    ELSE <<lines[k]>> \o LinesToBlank(lines, k + 1)

\* the lines of a sequence that satisfy neither of: being an indented
\* continuation line
RECURSIVE WithoutContinuations(_)
WithoutContinuations(lines) ==
    IF lines = <<>> THEN <<>>
    ELSE (IF Head(lines)[1] = "  " THEN <<>> ELSE <<Head(lines)>>)
            \o WithoutContinuations(Tail(lines))

\* the titles of the sections of a text, in the order they stand in it
RECURSIVE TitlesIn(_)
TitlesIn(lines) ==
    IF lines = <<>> THEN <<>>
    ELSE (IF Len(Head(lines)) = 1 /\ Head(lines)[1] \in TitleSet THEN <<Head(lines)[1]>> ELSE <<>>)
            \o TitlesIn(Tail(lines))

\* the entries of the section with a title, in the lines of a text: the lines
\* after the title and the empty line under it, continuation lines left out
SectionEntries(lines, title) ==
    IF \E k \in 1..Len(lines) : lines[k] = <<title>>
    THEN WithoutContinuations(
            LinesToBlank(lines, (CHOOSE k \in 1..Len(lines) : lines[k] = <<title>>) + 2))
    ELSE <<>>

\* how often a line stands in a sequence of lines
Count(lines, l) == Cardinality({k \in 1..Len(lines) : lines[k] = l})

\* a commit the changelog passes over: a merge, or one with a skip marker in
\* any case of letters
SkipMarked(msg) ==
    \E k \in 1..Len(msg) : msg[k] \in {"[skip-ci]", "[SKIP-CI]", "[ci skip]", "skip-checks: true"}
PassedOver(msg) == SkipMarked(msg) \/ (msg # <<>> /\ msg[1] = MergePrefix)

DroppedTypes == {"docs", "style", "test", "chore"}
OtherTypes == {"refactor", "perf", "build", "ci", "revert"}

\* the lines the claims give a recognized commit
BreakingLine(msg) == <<"- **", "BREAKING CHANGE:", "** ">> \o Parsed(msg).subject
TypedLine(msg) == <<"- **", Parsed(msg).type, ":", "** ">> \o Parsed(msg).subject

\* the section the claims put a commit in, "" for none, and its line there
SectionOf(msg) ==
    IF PassedOver(msg) THEN ""
    ELSE IF ~Recognized(msg) THEN "### Other Changes"
    ELSE IF RecognizedBreaking(msg) THEN "### BREAKING CHANGES"
    ELSE IF Parsed(msg).type = "feat" THEN "### Features"
    ELSE IF Parsed(msg).type = "fix" THEN "### Bug Fixes"
    ELSE IF Parsed(msg).type \in OtherTypes THEN "### Other Changes"
    ELSE ""
LineOf(msg) ==
    IF ~Recognized(msg) THEN FirstLine(msg)
    ELSE IF RecognizedBreaking(msg) THEN BreakingLine(msg)
    ELSE TypedLine(msg)

\* the lines of the commits of a list that belong in a section, in the list's order
RECURSIVE ExpectedEntries(_, _)
ExpectedEntries(msgs, title) ==
    IF msgs = <<>> THEN <<>>
    ELSE (IF SectionOf(Head(msgs)) = title THEN <<LineOf(Head(msgs))>> ELSE <<>>)
            \o ExpectedEntries(Tail(msgs), title)

\* the titles of the sections that have an entry, in the fixed order
RECURSIVE ExpectedTitles(_, _)
ExpectedTitles(msgs, k) ==
    IF k > Len(SectionTitles) THEN <<>>
    ELSE (IF ExpectedEntries(msgs, SectionTitles[k]) # <<>> THEN <<SectionTitles[k]>> ELSE <<>>)
            \o ExpectedTitles(msgs, k + 1)

\* C11: every recognized commit that is not passed over is in at most one
\* category: a breaking one stands under BREAKING CHANGES as
\* "- **BREAKING CHANGE:** <subject>" and nowhere else, also when it is a feat or
\* a fix; a non-breaking feat stands under Features, a non-breaking fix under
\* Bug Fixes, a non-breaking refactor/perf/build/ci/revert under Other Changes,
\* each as "- **<type>:** <subject>"; a non-breaking docs/style/test/chore
\* stands nowhere.  Stated by counting: each line a recognized commit could have
\* stands in each section as often as the list has commits with that section
\* and that line.
C11_OneCategoryPerCommit ==
    NotesWritten =>
        LET lines    == TextLines(changelogFile)
            entries  == [t \in TitleSet |-> SectionEntries(lines, t)]
            listed   == {i \in Positions :
                            Recognized(commitMsgs[i]) /\ ~PassedOver(commitMsgs[i])}
            section  == [i \in listed |-> SectionOf(commitMsgs[i])]
            line     == [i \in listed |-> LineOf(commitMsgs[i])]
        IN  \A i \in listed :
                \A l \in {BreakingLine(commitMsgs[i]), TypedLine(commitMsgs[i])} :
                    \A t \in TitleSet :
                        Count(entries[t], l) =
                            Cardinality({j \in listed : section[j] = t /\ line[j] = l})

\* a breaking feat, a plain feat with the same subject, and a docs commit
C11_Witness ==
    /\ NotesWritten
    /\ Len(commitMsgs) = 3
    /\ RecognizedBreaking(commitMsgs[1]) /\ Parsed(commitMsgs[1]).type = "feat"
    /\ QuietOfType(commitMsgs[2], {"feat"})
    /\ Parsed(commitMsgs[2]).subject = Parsed(commitMsgs[1]).subject
    /\ QuietOfType(commitMsgs[3], DroppedTypes)

\* every commit of the list is passed over or is a non-breaking commit of a
\* dropped type
EmptyAfterFiltering ==
    \A i \in Positions :
        PassedOver(commitMsgs[i]) \/ QuietOfType(commitMsgs[i], DroppedTypes)

\* C12: for a commit list that is empty after filtering the changelog builder
\* emits no section and reports the content as empty: the caller does not take a
\* changelog as generated (and so commits none).
C12_EmptyListGivesNoChangelog ==
    (pc \in {"commitNotes", "createTag"} /\ EmptyAfterFiltering) =>
        /\ TitlesIn(TextLines(changelogFile)) = <<>>
        /\ ~changelogGenerated
        /\ changelogCommits = {}

\* C13: the fragment has its sections in the order BREAKING CHANGES, Features,
\* Bug Fixes, Other Changes, a section is there if and only if it has an entry,
\* and the entries of a section stand in the order of the commit list.
C13_SectionsInOrder ==
    NotesWritten =>
        LET lines   == TextLines(changelogFile)
            titles  == TitlesIn(lines)
            entries == [t \in TitleSet |-> SectionEntries(lines, t)]
        IN  /\ titles = ExpectedTitles(commitMsgs, 1)
            /\ \A t \in TitleSet :
                  /\ entries[t] = ExpectedEntries(commitMsgs, t)
                  /\ Contains(titles, t) <=> entries[t] # <<>>

\* two features with different subjects, then a breaking commit
C13_Witness ==
    /\ NotesWritten
    /\ Len(commitMsgs) = 3
    /\ QuietOfType(commitMsgs[1], {"feat"})
    /\ QuietOfType(commitMsgs[2], {"feat"})
    /\ Parsed(commitMsgs[1]).subject # Parsed(commitMsgs[2]).subject
    /\ RecognizedBreaking(commitMsgs[3])

HasBumpSection ==
    \E t \in {"### BREAKING CHANGES", "### Features", "### Bug Fixes"} :
        Contains(TitlesIn(TextLines(changelogFile)), t)

\* C19 as stated: whenever the bump of the list is not "none", the changelog
\* rendered from the list has at least one of the sections BREAKING CHANGES,
\* Features, Bug Fixes.
C19_BumpHasSection ==
    (NotesWritten /\ determineBumpType(commitMsgs) # "none") => HasBumpSection

\* C19 as amended: whenever the list holds a recognized commit that is breaking,
\* a feat or a fix and that the changelog does not pass over, the changelog has
\* at least one of the three sections.
C19_ListedBumpHasSection ==
    ( /\ NotesWritten
      /\ \E i \in Positions :
            /\ ~PassedOver(commitMsgs[i])
            /\ \/ RecognizedBreaking(commitMsgs[i])
               \/ QuietOfType(commitMsgs[i], {"feat", "fix"}) )
        => HasBumpSection

\* a fix among commits that are passed over or dropped
C19_Witness ==
    /\ NotesWritten
    /\ Len(commitMsgs) = 3
    /\ SkipMarked(commitMsgs[1])
    /\ QuietOfType(commitMsgs[2], {"fix"})
    /\ QuietOfType(commitMsgs[3], DroppedTypes)

----------------------------------------------------------------------------
(* What the claims say about the tag name, stated on the template's text.  *)

Formatted == finalTagName # <<>>

\* the template in force: the default when none is supplied
Template == IF tagFormat = <<>> THEN DefaultTagFormat ELSE tagFormat

\* what one piece of a template becomes
Expanded(t, v) ==
    CASE t = "{{.Major}}" -> FormatUint(v.major)
      [] t = "{{.Minor}}" -> FormatUint(v.minor)
      [] t = "{{.Patch}}" -> FormatUint(v.patch)
      [] t = "{{.Prerelease}}" ->
            IF v.pre = <<>> THEN <<>> ELSE <<"-">> \o v.pre \o <<".">> \o FormatUint(v.n)
      [] OTHER -> <<t>>

RECURSIVE ExpandAll(_, _)
ExpandAll(template, v) ==
    IF template = <<>> THEN <<>>
    ELSE Expanded(Head(template), v) \o ExpandAll(Tail(template), v)

\* C14: the tag name is the template with every {{.Major}}, {{.Minor}},
\* {{.Patch}} replaced by the decimal value of the field, every {{.Prerelease}}
\* by nothing when the version has no pre-release and by "-" and the pre-release
\* otherwise, and every other piece, unknown placeholders included, as it was;
\* with the default template 2.0.0 gives v2.0.0 and 2.0.0-rc.1 gives v2.0.0-rc.1.
C14_TagNameIsTemplateExpanded ==
    Formatted =>
        /\ finalTagName = ExpandAll(Template, newVersion)
        /\ (Template = DefaultTagFormat /\ newVersion = Version(2, 0, 0, <<>>, 0))
              => finalTagName = <<"v", "2", ".", "0", ".", "0">>
        /\ (Template = DefaultTagFormat /\ newVersion = Version(2, 0, 0, <<"rc">>, 1))
              => finalTagName = <<"v", "2", ".", "0", ".", "0", "-", "rc", ".", "1">>

\* 2.0.0-rc.1 under the template with an unknown placeholder and {{.Major}} twice
C14_Witness ==
    /\ Formatted
    /\ newVersion = Version(2, 0, 0, <<"rc">>, 1)
    /\ Len(tagFormat) = 6
    /\ tagFormat[1] = "{{.Build}}"
    /\ finalTagName = <<"{{.Build}}", "-", "2", ".", "2", "-", "rc", ".", "1">>

\* C18: in the pre-release regime the new version is strictly greater, in the
\* precedence of semantic versions, than every pre-release tag of the branch
\* that exists, whatever their bases and whatever the bump.
C18_AboveEveryTagOfTheBranch ==
    (Calculated /\ preRelease)
        => \A t \in BranchTags : GreaterThan(newVersion, t)

\* C17: the tag name a run computes without an override is not the name of a
\* tag that exists, whatever the tags, the branch, the regime and the template
\* are, templates that do not start with "v" included.
C17_ComputedTagNameIsNew ==
    (pc \in {"notes", "commitNotes", "createTag"} /\ ~setVersion.given)
        => finalTagName \notin ExistingTagNames

----------------------------------------------------------------------------
(* What the claims say about the commands a run executes, stated on their  *)
(* record.                                                                 *)

\* how many of the commands executed so far are e
Executed(e) == Cardinality({k \in 1..Len(effects) : effects[k] = e})

\* the stage of a command: changelog write, changelog commit, tag creation, push
Stage(e) ==
    CASE e \in {"notes", "notesFailed"} -> 1
      [] e \in {"commit", "commitFailed"} -> 2
      [] e \in {"tag", "tagFailed"} -> 3
      [] OTHER -> 4

\* the run has ended with the command e as its last
EndedBy(e) == pc = "done" /\ exit = "error" /\ effects[Len(effects)] = e

\* C15: the commands of a run come in the order changelog write, changelog
\* commit, tag creation, push, each of the first three at most once; a failed
\* changelog generation is followed by no commit and does not keep the run from
\* creating the tag; a failed changelog commit ends the run before a tag is
\* created; a failed tag creation ends the run before a push; and nothing is
\* pushed unless -ci or -push-branch is set.
C15_StepsInOrder ==
    /\ \A j, k \in 1..Len(effects) :
          j < k => /\ Stage(effects[j]) <= Stage(effects[k])
                   /\ Stage(effects[j]) < 4 => Stage(effects[j]) < Stage(effects[k])
    /\ Executed("notesFailed") > 0 =>
          /\ Executed("commit") + Executed("commitFailed") = 0
          /\ pc = "done" => Executed("tag") + Executed("tagFailed") = 1
    /\ Executed("commitFailed") > 0 => EndedBy("commitFailed")
    /\ Executed("tagFailed") > 0 => EndedBy("tagFailed")
    /\ (\E k \in 1..Len(effects) : Stage(effects[k]) = 4) => (ciMode \/ pushBranch)
    /\ Executed("tag") > 0 => finalTagName \in ExistingTagNames
    /\ Executed("push") > 0 => finalTagName \in remoteTags

\* a run that wrote and committed the changelog, created the tag and pushed it
C15_Witness ==
    /\ pc = "done" /\ exit = "ok"
    /\ Len(effects) >= 4
    /\ SubSeq(effects, 1, 4) = <<"notes", "commit", "tag", "push">>

\* pushTag was called: the run was to push and had created its tag
PushTagCalled == (ciMode \/ pushBranch) /\ ~dryRun /\ Executed("tag") = 1

\* the attempts so far: at most 3; none after one that succeeded; the run ends
\* with an error if and only if 3 attempts failed or there is no remote; the
\* push of the branch comes only after a push of the tag that succeeded
PushTagSafe ==
    /\ Executed("push") + Executed("pushFailed") <= 3
    /\ Executed("push") > 0 =>
          /\ Executed("push") = 1
          /\ \A k \in 1..Len(effects) :
                effects[k] = "pushFailed" => \E j \in (k + 1)..Len(effects) : effects[j] = "push"
    /\ (PushTagCalled /\ pc = "done") =>
          (exit = "error" <=> (Executed("pushFailed") = 3 \/ ~hasRemote))
    /\ Executed("track") > 0 =>
          \E j, k \in 1..Len(effects) : j < k /\ effects[j] = "push" /\ effects[k] = "track"

AtPush == pc = "push"
Ended == pc = "done"

\* C16: pushTag ends, after at most 3 runs of git push origin <tag>; it stops
\* at the first that succeeds; it returns an error (the run ends with status 1)
\* if and only if 3 attempts failed or there is no remote; and it tries the
\* push of the branch only after the push of the tag succeeded.
C16_PushTagEnds == []PushTagSafe /\ (AtPush ~> Ended)

\* the tag was pushed at the third attempt, and the branch after it
C16_Witness ==
    /\ pc = "done" /\ exit = "ok"
    /\ effects = <<"tag", "pushFailed", "pushFailed", "push", "track", "branch">>

----------------------------------------------------------------------------
(* What the claims say about a run of main. *)

\* C9: with an override that parses as a version, a run that ends well (no dry
\* run, no -next-version-only) has released exactly that version, whatever the
\* commit history is: the override does not wait for a bump from the commits.
C9_OverrideReleasesWhateverTheHistory ==
    ( /\ pc = "done" /\ exit = "ok"
      /\ setVersion.given /\ setVersion.parses
      /\ ~dryRun /\ ~nextVersionOnly )
        => setVersion.version \in tags

\* C10: a dry run changes nothing: no step of it writes CHANGELOG.md, commits,
\* creates a tag or pushes a tag or the branch, whatever the other flags are,
\* and the dry runs of one command line all report the same version.
C10_DryRunChangesNothing ==
    /\ [][dryRun => UNCHANGED repo]_vars
    /\ [](dryRun => \A i, j \in 1..Len(reported) : reported[i] = reported[j])

\* the second of two dry runs has reported, with the changelog and the push
\* asked for in the release regime
C10_Witness ==
    /\ dryRun /\ outputChangelog /\ ciMode /\ pushBranch /\ ~preRelease
    /\ runs = 2
    /\ Len(reported) = 2
    /\ pc = "done" /\ exit = "ok"

====
